---------------------------- MODULE Spec2Model ----------------------------
(***************************************************************************)
(* The incremental image-collection pipeline of                            *)
(*   src/data_collection/get_new_data_apache.py  (orchestrated, GCS)       *)
(*   src/data_collection/get_new_data_local.py   (one-shot, local files)   *)
(* as one state machine.  The variable ctx selects the execution context;  *)
(* where the two files differ the actions branch on it.                    *)
(*                                                                         *)
(* Strings the code inspects are sequences of tokens, so that endswith,    *)
(* urlparse, splitext, lower and the CSV number inference are computed,    *)
(* not assumed: a URL is <<host, path tokens.., "?", query tokens..>> and  *)
(* a submission id is the sequence of its characters.                      *)
(***************************************************************************)
EXTENDS Integers, Sequences, FiniteSets, TLC

----------------------------------------------------------------------------
(* Bounds of the model *)

\* the number of complete runs (DAG runs / invocations of the script)
MaxRuns == 2
\* the number of submissions a feed yields in the multi-source scenarios
MaxFeed == 2
\* the number of failures of the network or the store (an exception raised,
\* a response that is not 2xx) over all runs
MaxFaults == 1

----------------------------------------------------------------------------
(* CONFIGURATION *)

DALLE_SUBR == "dalle2"
MIDJ_SUBR == "midjourney"
AIART_SUBR == "aiArt"
SUBREDDITS == <<DALLE_SUBR, MIDJ_SUBR, AIART_SUBR>>
Sources == {SUBREDDITS[i] : i \in 1..Len(SUBREDDITS)}

\* Python None as a flair value
NoneFlair == "<None>"

\* the flair strings of FLAIR_DICT (the middle dot of the source is written -)
FLAIR_DICT(subr) ==
    CASE subr = DALLE_SUBR -> {"DALL-E 2", "DALL-E 3"}
      [] subr = MIDJ_SUBR  -> {"AI Showcase - Midjourney"}
      [] subr = AIART_SUBR -> {"Image - DALL E 3 :a2:", "Image - Midjourney :a2:"}

\* what AIART_MAP[flair] raises for a flair that is not a key
KeyError == "<KeyError>"

AIART_MAP(flair) ==
    CASE flair = "Image - DALL E 3 :a2:"   -> DALLE_SUBR
      [] flair = "Image - Midjourney :a2:" -> MIDJ_SUBR
      [] OTHER                             -> KeyError

image_extensions == {".jpg", ".jpeg", ".png"}

\* the table alone, without the default of .get
CONTENT_TYPE_MAP_NoDefault(ext) ==
    CASE ext = ".jpg"  -> "image/jpeg"
      [] ext = ".jpeg" -> "image/jpeg"
      [] ext = ".png"  -> "image/png"
      [] OTHER         -> "<None>"

\* CONTENT_TYPE_MAP.get(original_ext, 'image/jpeg')
CONTENT_TYPE_MAP(ext) ==
    CASE ext = ".jpg"  -> "image/jpeg"
      [] ext = ".jpeg" -> "image/jpeg"
      [] ext = ".png"  -> "image/png"
      [] OTHER         -> "image/jpeg"

----------------------------------------------------------------------------
(* Strings *)

\* str.lower() on the tokens that occur
Lower(tok) ==
    CASE tok = ".PNG"  -> ".png"
      [] tok = ".JPG"  -> ".jpg"
      [] tok = ".JPEG" -> ".jpeg"
      [] tok = ".GIF"  -> ".gif"
      [] OTHER         -> tok

ExtTokens == {".jpg", ".jpeg", ".png", ".gif", ".PNG", ".JPG", ".JPEG", ".GIF"}

\* str.endswith(tuple): every extension is a token of its own, so the string
\* ends in a suffix exactly when its last token is that suffix
EndsWith(url, suffixes) == Len(url) > 0 /\ url[Len(url)] \in suffixes

\* the position of the first "?" or "#" of a URL, Len+1 when there is none
RECURSIVE PathEnd(_, _)
PathEnd(url, i) ==
    IF i > Len(url) THEN i
    ELSE IF url[i] \in {"?", "#"} THEN i
    ELSE PathEnd(url, i + 1)

\* urlparse(url).path: what follows the host, up to the query or fragment
UrlPath(url) == SubSeq(url, 2, PathEnd(url, 2) - 1)

\* os.path.splitext(path)[1]: the extension of the last component, or ""
SplitExt(path) ==
    IF Len(path) > 0 /\ path[Len(path)] \in ExtTokens THEN path[Len(path)] ELSE ""

\* the extension read off the end of the whole URL, as it is written
get_file_extension_of_url(url) ==
    IF Len(url) > 0 /\ url[Len(url)] \in ExtTokens THEN url[Len(url)] ELSE ".jpg"

get_file_extension(url) ==
    LET ext == SplitExt(UrlPath(url)) IN IF ext # "" THEN Lower(ext) ELSE ".jpg"

----------------------------------------------------------------------------
(* Numbers in text: what pandas.read_csv infers and what str() prints *)

Digits == <<"0", "1", "2", "3", "4", "5", "6", "7", "8", "9">>
DigitSet == {Digits[i] : i \in 1..10}
DigitVal(c) == (CHOOSE i \in 1..10 : Digits[i] = c) - 1

IsDigits(t) == Len(t) > 0 /\ \A i \in 1..Len(t) : t[i] \in DigitSet

RECURSIVE DigitsToInt(_)
DigitsToInt(t) ==
    IF Len(t) = 0 THEN 0
    ELSE 10 * DigitsToInt(SubSeq(t, 1, Len(t) - 1)) + DigitVal(t[Len(t)])

RECURSIVE IntToDigits(_)
IntToDigits(n) ==
    IF n < 10 THEN <<Digits[n + 1]>>
    ELSE Append(IntToDigits(n \div 10), Digits[(n % 10) + 1])

RECURSIVE Pow10(_)
Pow10(k) == IF k = 0 THEN 1 ELSE 10 * Pow10(k - 1)

\* the position of character c in t, 0 when absent
IndexOf(t, c) ==
    IF \E i \in 1..Len(t) : t[i] = c THEN CHOOSE i \in 1..Len(t) : t[i] = c ELSE 0

\* digits "e" digits, such as 12e3
IsExpText(t) ==
    LET e == IndexOf(t, "e") IN
    /\ e > 1 /\ e < Len(t)
    /\ IsDigits(SubSeq(t, 1, e - 1)) /\ IsDigits(SubSeq(t, e + 1, Len(t)))

\* digits "." "0", such as 12000.0 (what str() of an integral float prints)
IsPointText(t) ==
    /\ Len(t) >= 3 /\ t[Len(t)] = "0" /\ t[Len(t) - 1] = "."
    /\ IsDigits(SubSeq(t, 1, Len(t) - 2))

IsIntText(t) == IsDigits(t)
IsNumText(t) == IsIntText(t) \/ IsExpText(t) \/ IsPointText(t)

\* the (integral) value of a numeric text
NumValue(t) ==
    IF IsIntText(t) THEN DigitsToInt(t)
    ELSE IF IsExpText(t)
         THEN LET e == IndexOf(t, "e") IN
              DigitsToInt(SubSeq(t, 1, e - 1)) * Pow10(DigitsToInt(SubSeq(t, e + 1, Len(t))))
         ELSE DigitsToInt(SubSeq(t, 1, Len(t) - 2))

\* Python values of a submission_id cell: a str, an int or a float, each
\* carried with the text str() prints for it
PyStr(t) == [ty |-> "str", s |-> t]
PyInt(n) == [ty |-> "int", s |-> IntToDigits(n)]
PyFloat(n) == [ty |-> "float", s |-> IntToDigits(n) \o <<".", "0">>]

\* pd.read_csv on the rows of a metadata.csv: the submission_id column becomes
\* int64 when every cell is an integer, float64 when every cell is a number,
\* and stays a column of str otherwise.  The other columns (filename, url,
\* subreddit, date) never look like numbers and stay str.
ReadCsv(rows) ==
    LET n == Len(rows)
        allInt == n > 0 /\ \A i \in 1..n : IsIntText(rows[i].submission_id)
        allNum == n > 0 /\ \A i \in 1..n : IsNumText(rows[i].submission_id)
        conv(t) == IF allInt THEN PyInt(NumValue(t))
                   ELSE IF allNum THEN PyFloat(NumValue(t))
                   ELSE PyStr(t)
    IN [i \in 1..n |-> [rows[i] EXCEPT !.submission_id = conv(@)]]

\* DataFrame.to_csv(index=False): every cell is written as str() prints it
ToCsv(df) == [i \in 1..Len(df) |-> [df[i] EXCEPT !.submission_id = @.s]]

\* set(df['submission_id'].tolist())
SubmissionIds(df) == {df[i].submission_id : i \in 1..Len(df)}

\* submission.id in existing_ids: submission.id is a str, and a str equals
\* neither an int nor a float
IdIn(id, existing) == PyStr(id) \in existing

\* datetime.fromtimestamp(created_utc).isoformat()
IsoFormat(created_utc) == <<"iso", created_utc>>

----------------------------------------------------------------------------
(* The feeds *)

Host == "https://i.redd.it"

\* content URLs: /a.jpg  /a.jpeg  /a.png  /a.PNG  /a.jpg?w=1  /view?f=x.jpg
\* /a.gif  /gallery/a  /a.png#top
Urls ==
    { <<Host, "/a", ".jpg">>, <<Host, "/a", ".jpeg">>, <<Host, "/a", ".png">>,
      <<Host, "/a", ".PNG">>, <<Host, "/a", ".jpg", "?", "w=1">>,
      <<Host, "/view", "?", "f=x", ".jpg">>, <<Host, "/a", ".gif">>,
      <<Host, "/gallery/a">>, <<Host, "/a", ".png", "#", "top">> }

GoodUrl == <<Host, "/a", ".jpg">>

Flairs ==
    { NoneFlair, "", "Meme",
      "DALL-E 2", "DALL-E 3", "AI Showcase - Midjourney",
      "Image - DALL E 3 :a2:", "Image - Midjourney :a2:" }

\* submission ids (base 36): five that only read as strings, and one that
\* also reads as a number
IdD == <<"d", "7", "k">>
IdC == <<"c", "0", "w">>
IdM == <<"m", "4", "z">>
IdA == <<"a", "9", "q">>
IdB == <<"b", "2", "x">>
IdExp == <<"1", "2", "e", "3">>

Submission(id, flair, url, nsfw) ==
    [id |-> id, link_flair_text |-> flair, url |-> url, over_18 |-> nsfw,
     created_utc |-> 1700000000]

\* the submissions of the multi-source scenarios: all pass the filters, so the
\* runs differ in what is new, where it is filed and what fails
RunItems(subr) ==
    CASE subr = DALLE_SUBR ->
           { Submission(IdD, "DALL-E 2", GoodUrl, FALSE),
             Submission(IdC, "DALL-E 3", GoodUrl, FALSE) }
      [] subr = MIDJ_SUBR ->
           { Submission(IdM, "AI Showcase - Midjourney", GoodUrl, FALSE) }
      [] subr = AIART_SUBR ->
           { Submission(IdA, "Image - DALL E 3 :a2:", GoodUrl, FALSE),
             Submission(IdB, "Image - Midjourney :a2:", GoodUrl, FALSE) }

\* the submissions of the single-item scenarios: every flair, URL and flag,
\* and every flair with the id that reads as a number
AllItems ==
    { Submission(IdD, f, u, n) : f \in Flairs, u \in Urls, n \in BOOLEAN }
    \cup { Submission(IdExp, f, GoodUrl, FALSE) : f \in Flairs }

\* the sequences over S without repetition, of length at most n
RECURSIVE SeqsUpTo(_, _)
SeqsUpTo(S, n) ==
    IF n = 0 THEN {<<>>}
    ELSE LET shorter == SeqsUpTo(S, n - 1) IN
         shorter \cup { Append(q, x) : q \in { r \in shorter : Len(r) = n - 1 },
                                        x \in S }

NoDup(q) == \A i, j \in 1..Len(q) : i # j => q[i] # q[j]

Feeds(subr) == { q \in SeqsUpTo(RunItems(subr), MaxFeed) : NoDup(q) }

----------------------------------------------------------------------------
(* State *)

VARIABLES
    ctx,            \* "orch" (get_new_data_apache.py) or "local" (get_new_data_local.py)
    run,            \* the number of the current run
    feed,           \* subreddit.new(limit=1000) of each Source, unchanged between runs
    pc,             \* where each Source's pipeline stands
    idx,            \* the position of each pass in its feed
    existing_ids,   \* existing_ids of each pass
    stats,          \* stats of each pass
    new_images,     \* new_images of each pass
    todo,           \* the keys of images_by_target still to merge, in dict order
    df_existing,    \* df_existing of a merge between its read and its write
    meta,           \* {location}/metadata.csv: whether it exists, and its rows
    blobs,          \* the binaries, by {target}/{filename}
    dirs,           \* the directories under DATA_DIR (local)
    xcom,           \* the stats pushed to XCom (orch) / appended to all_stats (local)
    log,            \* the daily log of the current run, once written
    faults,         \* the number of failures injected so far
    merge_error,    \* <<Source, target>>: the merges that raised in this run
    meta0,          \* meta as it was when the current run started
    ev              \* the last step taken

vars == <<ctx, run, feed, pc, idx, existing_ids, stats, new_images, todo,
          df_existing, meta, blobs, dirs, xcom, log, faults, merge_error,
          meta0, ev>>

NoSub == Submission(<<>>, NoneFlair, <<>>, FALSE)
Event(kind, subr, sub, info) == [kind |-> kind, subr |-> subr, sub |-> sub, info |-> info]

NewStats(subr) ==
    [subreddit |-> subr, checked |-> 0, passed_flair |-> 0, passed_image |-> 0,
     passed_nsfw |-> 0, new_images |-> 0, download_errors |-> 0, images |-> <<>>]

NoLog == [written |-> FALSE, subreddit_stats |-> <<>>, total_new_images |-> 0,
          total_errors |-> 0]
NoFile == [exists |-> FALSE, rows |-> <<>>]
NoStats == [subreddit |-> "", checked |-> 0, passed_flair |-> 0, passed_image |-> 0,
            passed_nsfw |-> 0, new_images |-> 0, download_errors |-> 0, images |-> <<>>]

InitCommon ==
    /\ ctx \in {"orch", "local"}
    /\ run = 1
    /\ pc = [s \in Sources |-> "ready"]
    /\ idx = [s \in Sources |-> 1]
    /\ existing_ids = [s \in Sources |-> {}]
    /\ stats = [s \in Sources |-> NewStats(s)]
    /\ new_images = [s \in Sources |-> <<>>]
    /\ todo = [s \in Sources |-> <<>>]
    /\ df_existing = [s \in Sources |-> [found |-> FALSE, df |-> <<>>]]
    /\ meta = [c \in Sources |-> NoFile]
    /\ blobs = {}
    /\ dirs = {}
    /\ xcom = [s \in Sources |-> NoStats]
    /\ log = NoLog
    /\ faults = 0
    /\ merge_error = {}
    /\ meta0 = meta
    /\ ev = Event("init", "", NoSub, "")

\* several Sources with submissions that pass the filters
InitRun == InitCommon /\ feed \in [Sources -> UNION {Feeds(s) : s \in Sources}]
                      /\ \A s \in Sources : feed[s] \in Feeds(s)

\* a submission of a Source that passes every filter
FollowUp(subr) ==
    Submission(IdC, CHOOSE f \in FLAIR_DICT(subr) : TRUE, GoodUrl, FALSE)

\* one Source with one submission of any shape, alone or followed by a
\* submission that passes the filters
InitItem ==
    /\ InitCommon
    /\ \E s \in Sources, sub \in AllItems :
        \E rest \in {<<>>, <<FollowUp(s)>>} :
          feed = [t \in Sources |-> IF t = s THEN <<sub>> \o rest ELSE <<>>]

\* the five submissions of the end-to-end scenario of a Source: a submission
\* without flair, one flagged over_18, one collected by an earlier run, one
\* with an irrelevant flair, and one never seen whose flair is relevant
FunnelFeed(subr, flair, url) ==
    << Submission(IdA, NoneFlair, GoodUrl, FALSE),
       Submission(IdM, flair, GoodUrl, TRUE),
       FollowUp(subr),
       Submission(IdB, "Meme", GoodUrl, FALSE),
       Submission(IdD, flair, url, FALSE) >>

\* the stores after an earlier run collected FollowUp(subr) and nothing else:
\* its binary, its row in the metadata.csv of its target, and (local) the
\* directory of the target
StoreAfter(c, subr) ==
    LET img == [submission_id |-> IdC,
                filename |-> <<"img_", IF subr = AIART_SUBR
                                        THEN AIART_MAP(FollowUp(subr).link_flair_text)
                                        ELSE subr, "_", IdC, ".jpg">>,
                url |-> GoodUrl, subreddit |-> subr,
                date |-> IsoFormat(1700000000)]
        target == img.filename[2] IN
    [meta |-> [t \in Sources |->
                  IF t = target THEN [exists |-> TRUE, rows |-> <<img>>]
                  ELSE [exists |-> FALSE, rows |-> <<>>]],
     blobs |-> {[target |-> target, filename |-> img.filename, body |-> "image",
                 content_type |-> IF c = "orch" THEN "image/jpeg" ELSE ""]},
     dirs |-> IF c = "local" THEN {target} ELSE {}]

\* one Source with the five submissions of the end-to-end scenario, against
\* empty stores or against the stores an earlier run left
InitFunnel ==
    /\ ctx \in {"orch", "local"}
    /\ run = 1
    /\ pc = [s \in Sources |-> "ready"]
    /\ idx = [s \in Sources |-> 1]
    /\ existing_ids = [s \in Sources |-> {}]
    /\ stats = [s \in Sources |-> NewStats(s)]
    /\ new_images = [s \in Sources |-> <<>>]
    /\ todo = [s \in Sources |-> <<>>]
    /\ df_existing = [s \in Sources |-> [found |-> FALSE, df |-> <<>>]]
    /\ xcom = [s \in Sources |-> NoStats]
    /\ log = NoLog
    /\ faults = 0
    /\ merge_error = {}
    /\ ev = Event("init", "", NoSub, "")
    /\ \E s \in Sources :
          /\ \E f \in FLAIR_DICT(s), u \in Urls :
                feed = [t \in Sources |-> IF t = s THEN FunnelFeed(s, f, u) ELSE <<>>]
          /\ \/ meta = [c \in Sources |-> NoFile] /\ blobs = {} /\ dirs = {}
             \/ /\ meta = StoreAfter(ctx, s).meta
                /\ blobs = StoreAfter(ctx, s).blobs
                /\ dirs = StoreAfter(ctx, s).dirs
    /\ meta0 = meta

Init == InitRun \/ InitItem \/ InitFunnel

----------------------------------------------------------------------------
(* The filter stages of one loop iteration *)

\* not submission.link_flair_text
Falsy(flair) == flair \in {NoneFlair, ""}

\* stage 1 with the membership test skipped for a missing flair
FlairPassesUnlessPresent(c, subr, sub) ==
    Falsy(sub.link_flair_text) \/ sub.link_flair_text \in FLAIR_DICT(subr)

\* stage 1.  orch: not (not flair or flair not in FLAIR_DICT[subr]);
\*           local: not (flair not in FLAIR_DICT[subr])
FlairPasses(c, subr, sub) ==
    IF c = "orch"
    THEN ~(Falsy(sub.link_flair_text) \/ sub.link_flair_text \notin FLAIR_DICT(subr))
    ELSE sub.link_flair_text \in FLAIR_DICT(subr)

\* stage 2: submission.url.endswith(image_extensions)
ImagePasses(sub) == EndsWith(sub.url, image_extensions)

\* stage 3: not submission.over_18
NsfwPasses(sub) == ~sub.over_18

\* stage 4: not (submission.id in existing_ids)
IsNew(sub, existing) == ~IdIn(sub.id, existing)

\* the stages with the over_18 test moved before the test of the URL
StagesPassedSafetyFirst(c, subr, sub, existing) ==
    IF ~FlairPasses(c, subr, sub) THEN 0
    ELSE IF ~NsfwPasses(sub) THEN 1
    ELSE IF ~ImagePasses(sub) THEN 1
    ELSE IF ~IsNew(sub, existing) THEN 3
    ELSE 4

\* the number of stages a submission passes before the first `continue`
StagesPassed(c, subr, sub, existing) ==
    IF ~FlairPasses(c, subr, sub) THEN 0
    ELSE IF ~ImagePasses(sub) THEN 1
    ELSE IF ~NsfwPasses(sub) THEN 2
    ELSE IF ~IsNew(sub, existing) THEN 3
    ELSE 4

\* the counters with passed_nsfw counted after the test of existing_ids
ExaminedAfterNovelty(st, k) ==
    [st EXCEPT !.checked = @ + 1,
               !.passed_flair = @ + (IF k >= 1 THEN 1 ELSE 0),
               !.passed_image = @ + (IF k >= 2 THEN 1 ELSE 0),
               !.passed_nsfw = @ + (IF k >= 4 THEN 1 ELSE 0)]

\* the counters after the stages of one iteration
Examined(st, k) ==
    [st EXCEPT !.checked = @ + 1,
               !.passed_flair = @ + (IF k >= 1 THEN 1 ELSE 0),
               !.passed_image = @ + (IF k >= 2 THEN 1 ELSE 0),
               !.passed_nsfw = @ + (IF k >= 3 THEN 1 ELSE 0)]

\* target_subr without the redirection of aiArt
TargetSubrIsSource(subr, sub) == subr

\* target_subr
TargetSubr(subr, sub) ==
    IF subr = AIART_SUBR THEN AIART_MAP(sub.link_flair_text) ELSE subr

\* f"img_{target_subr}_{submission.id}{original_ext}"
Filename(target, id, ext) == <<"img_", target, "_", id, ext>>

\* the dict appended to new_images
ImageRecord(subr, sub) ==
    LET target == TargetSubr(subr, sub) IN
    [submission_id |-> sub.id,
     filename |-> Filename(target, sub.id, get_file_extension(sub.url)),
     url |-> sub.url,
     subreddit |-> subr,
     date |-> IsoFormat(sub.created_utc),
     target_subr |-> target]

\* a write that stores nothing
PutBlobNowhere(store, b) == store

\* a write to {target}/{filename} replaces what was there
PutBlob(store, b) ==
    {x \in store : ~(x.target = b.target /\ x.filename = b.filename)} \cup {b}

\* the binary written for a submission.  orch: upload_from_string(content,
\* content_type); local: open(filepath, 'wb').write(content)
Blob(c, subr, sub, body) ==
    LET ext == get_file_extension(sub.url)
        target == TargetSubr(subr, sub) IN
    [target |-> target, filename |-> Filename(target, sub.id, ext), body |-> body,
     content_type |-> IF c = "orch" THEN CONTENT_TYPE_MAP(ext) ELSE ""]

\* response.content: requests.get returns the body of any response, whatever
\* its status (there is no raise_for_status)
Body(status) == IF status = "200" THEN "image" ELSE "error_page"

----------------------------------------------------------------------------
(* collect: upload_new_images_to_gcs / collect_new_images_from_subreddit_local *)

\* local: the Sources are processed one after the other; orch: the DAG orders
\* nothing between Sources
CanStart(s) ==
    \/ ctx = "orch"
    \/ \A i, j \in 1..Len(SUBREDDITS) :
          (i < j /\ SUBREDDITS[j] = s) => pc[SUBREDDITS[i]] = "done"

\* The iterations of a pass read its own existing_ids and write binaries
\* under keys no other task reads or writes, so they commute with the steps
\* of the other tasks: a loop runs from its first iteration to its end
\* without another task's step in between.
Free(s) == \A t \in Sources \ {s} : pc[t] # "loop"

Cur(s) == feed[s][idx[s]]
\* the loop of the pass has ended and its results are handed over
PastLoop(s) == pc[s] \in {"collected", "merge", "merge_write", "done"}
InLoop(s) == pc[s] = "loop" /\ idx[s] <= Len(feed[s])
CurStages(s) == StagesPassed(ctx, s, Cur(s), existing_ids[s])

\* a load that reads the ids of every Category's metadata.csv
LoadIdsOfEveryStore(s) ==
    /\ pc[s] = "ready" /\ CanStart(s) /\ Free(s)
    /\ existing_ids' = [existing_ids EXCEPT ![s] =
            UNION {SubmissionIds(ReadCsv(meta[c].rows)) : c \in Sources}]
    /\ pc' = [pc EXCEPT ![s] = "loop"]
    /\ ev' = Event("load_ids", s, NoSub, "")
    /\ UNCHANGED <<ctx, run, feed, idx, stats, new_images, todo, df_existing, meta,
                   blobs, dirs, xcom, log, faults, merge_error, meta0>>

\* get_gcs_submission_ids / get_existing_image_ids_local, returning a set
LoadIds(s) ==
    /\ pc[s] = "ready" /\ CanStart(s) /\ Free(s)
    /\ \/ ctx = "orch"
       \/ s \notin dirs
       \/ meta[s].exists
    /\ existing_ids' = [existing_ids EXCEPT ![s] =
            IF (ctx = "local" /\ s \notin dirs) \/ ~meta[s].exists
            THEN {}
            ELSE SubmissionIds(ReadCsv(meta[s].rows))]
    /\ pc' = [pc EXCEPT ![s] = "loop"]
    /\ ev' = Event("load_ids", s, NoSub, "")
    /\ UNCHANGED <<ctx, run, feed, idx, stats, new_images, todo, df_existing, meta,
                   blobs, dirs, xcom, log, faults, merge_error, meta0>>

\* the metadata.csv exists but cannot be read (download or parse raises).
\* orch: caught, the set is empty; local: not caught, the script ends
LoadIdsUnreadable(s) ==
    /\ pc[s] = "ready" /\ CanStart(s) /\ Free(s)
    /\ faults < MaxFaults
    /\ meta[s].exists
    /\ ctx = "local" => s \in dirs
    /\ faults' = faults + 1
    /\ existing_ids' = [existing_ids EXCEPT ![s] = {}]
    /\ pc' = [pc EXCEPT ![s] = IF ctx = "orch" THEN "loop" ELSE "crashed"]
    /\ ev' = Event("load_ids_unreadable", s, NoSub, "")
    /\ UNCHANGED <<ctx, run, feed, idx, stats, new_images, todo, df_existing, meta,
                   blobs, dirs, xcom, log, merge_error, meta0>>

\* local: the directory exists and holds no metadata.csv: pd.read_csv raises
\* FileNotFoundError, which nothing catches
LoadIdsMissingFile(s) ==
    /\ pc[s] = "ready" /\ CanStart(s) /\ Free(s)
    /\ ctx = "local" /\ s \in dirs /\ ~meta[s].exists
    /\ pc' = [pc EXCEPT ![s] = "crashed"]
    /\ ev' = Event("load_ids_missing_file", s, NoSub, "")
    /\ UNCHANGED <<ctx, run, feed, idx, existing_ids, stats, new_images, todo,
                   df_existing, meta, blobs, dirs, xcom, log, faults, merge_error,
                   meta0>>

\* an iteration that ends in one of the four `continue`s
Skip(s) ==
    /\ InLoop(s)
    /\ CurStages(s) < 4
    /\ stats' = [stats EXCEPT ![s] = Examined(@, CurStages(s))]
    /\ idx' = [idx EXCEPT ![s] = @ + 1]
    /\ ev' = Event("skip", s, Cur(s), "")
    /\ UNCHANGED <<ctx, run, feed, pc, existing_ids, new_images, todo, df_existing,
                   meta, blobs, dirs, xcom, log, faults, merge_error, meta0>>

\* an iteration in which requests.get returns a response and the write of the
\* binary succeeds.  A flair that AIART_MAP does not hold raises KeyError after
\* the retrieval and before anything is written: the except clause counts it.
\* The record is built from attributes the stages have read and from an
\* epoch-seconds created_utc, so nothing raises between the increment of
\* stats['new_images'] and the append.
Download(s) ==
    /\ InLoop(s)
    /\ CurStages(s) = 4
    /\ \E status \in {"200", "404"} :
          /\ status # "200" => faults < MaxFaults
          /\ faults' = IF status = "200" THEN faults ELSE faults + 1
          /\ IF TargetSubr(s, Cur(s)) = KeyError
             THEN /\ stats' = [stats EXCEPT ![s] =
                         [Examined(@, 4) EXCEPT !.download_errors = @ + 1]]
                  /\ ev' = Event("key_error", s, Cur(s), status)
                  /\ UNCHANGED <<blobs, dirs, new_images>>
             ELSE /\ blobs' = PutBlob(blobs, Blob(ctx, s, Cur(s), Body(status)))
                  /\ dirs' = IF ctx = "local"
                             THEN dirs \cup {TargetSubr(s, Cur(s))} ELSE dirs
                  /\ stats' = [stats EXCEPT ![s] =
                         [Examined(@, 4) EXCEPT !.new_images = @ + 1]]
                  /\ new_images' = [new_images EXCEPT ![s] =
                         Append(@, ImageRecord(s, Cur(s)))]
                  /\ ev' = Event("downloaded", s, Cur(s), status)
    /\ idx' = [idx EXCEPT ![s] = @ + 1]
    /\ UNCHANGED <<ctx, run, feed, pc, existing_ids, todo, df_existing, meta, xcom,
                   log, merge_error, meta0>>

\* requests.get raises (connection error, timeout)
FetchRaises(s) ==
    /\ InLoop(s)
    /\ CurStages(s) = 4
    /\ faults < MaxFaults
    /\ faults' = faults + 1
    /\ stats' = [stats EXCEPT ![s] = [Examined(@, 4) EXCEPT !.download_errors = @ + 1]]
    /\ idx' = [idx EXCEPT ![s] = @ + 1]
    /\ ev' = Event("fetch_raised", s, Cur(s), "")
    /\ UNCHANGED <<ctx, run, feed, pc, existing_ids, new_images, todo, df_existing,
                   meta, blobs, dirs, xcom, log, merge_error, meta0>>

\* the write of the binary raises.  orch: upload_from_string raises and no blob
\* is created.  local: mkdir has run; open raises (no file) or f.write raises
\* after open created the file (a truncated file stays)
WriteRaises(s) ==
    /\ InLoop(s)
    /\ CurStages(s) = 4
    /\ TargetSubr(s, Cur(s)) # KeyError
    /\ faults < MaxFaults
    /\ faults' = faults + 1
    /\ \E at \in IF ctx = "orch" THEN {"upload"} ELSE {"open", "write"} :
          /\ blobs' = IF at = "write"
                      THEN PutBlob(blobs, Blob(ctx, s, Cur(s), "truncated"))
                      ELSE blobs
          /\ ev' = Event("write_raised", s, Cur(s), at)
    /\ dirs' = IF ctx = "local" THEN dirs \cup {TargetSubr(s, Cur(s))} ELSE dirs
    /\ stats' = [stats EXCEPT ![s] = [Examined(@, 4) EXCEPT !.download_errors = @ + 1]]
    /\ idx' = [idx EXCEPT ![s] = @ + 1]
    /\ UNCHANGED <<ctx, run, feed, pc, existing_ids, new_images, todo, df_existing,
                   meta, xcom, log, merge_error, meta0>>

\* the end of the loop: stats['images'] = new_images; orch pushes stats and
\* new_images to XCom, local appends stats to all_stats
EndPass(s) ==
    /\ pc[s] = "loop" /\ idx[s] > Len(feed[s])
    /\ stats' = [stats EXCEPT ![s].images = new_images[s]]
    /\ xcom' = [xcom EXCEPT ![s] = stats'[s]]
    /\ pc' = [pc EXCEPT ![s] = "collected"]
    /\ ev' = Event("end_pass", s, NoSub, "")
    /\ UNCHANGED <<ctx, run, feed, idx, existing_ids, new_images, todo, df_existing,
                   meta, blobs, dirs, log, faults, merge_error, meta0>>

----------------------------------------------------------------------------
(* update_metadata_csv / update_metadata_csv_local *)

\* the keys of images_by_target, in insertion order
RECURSIVE TargetsOf(_)
TargetsOf(imgs) ==
    IF Len(imgs) = 0 THEN <<>>
    ELSE LET before == TargetsOf(SubSeq(imgs, 1, Len(imgs) - 1))
             t == imgs[Len(imgs)].target_subr IN
         IF \E i \in 1..Len(before) : before[i] = t THEN before ELSE Append(before, t)

\* images_by_target[target]
ImagesFor(imgs, target) == SelectSeq(imgs, LAMBDA img : img.target_subr = target)

\* the five columns written for one image
RowOf(img) ==
    [submission_id |-> img.submission_id, filename |-> img.filename, url |-> img.url,
     subreddit |-> img.subreddit, date |-> img.date]

\* csv.DictWriter rows (local): the text of each value
CsvRows(imgs) == [i \in 1..Len(imgs) |-> RowOf(imgs[i])]

\* df_new = pd.DataFrame([...]) (orch): the ids are Python str
NewFrame(imgs) ==
    [i \in 1..Len(imgs) |-> [RowOf(imgs[i]) EXCEPT !.submission_id = PyStr(@)]]

\* pd.concat([df_existing, df_new], ignore_index=True), or df_new alone
Combined(existing, imgs) ==
    IF existing.found THEN existing.df \o NewFrame(imgs) ELSE NewFrame(imgs)

NoFrame == [found |-> FALSE, df |-> <<>>]

\* the targets a merge has still to process
CurTodo(s) == IF pc[s] = "collected" THEN TargetsOf(new_images[s]) ELSE todo[s]
AtTarget(s) ==
    /\ Free(s)
    /\ \/ pc[s] = "collected" /\ Len(new_images[s]) > 0
       \/ pc[s] = "merge"
AfterTarget(s) == IF Len(CurTodo(s)) > 1 THEN "merge" ELSE "done"

\* a merge that, given no new images, still creates the metadata.csv of its
\* Source
MergeSkipTouches(s) ==
    /\ pc[s] = "collected" /\ Len(new_images[s]) = 0 /\ Free(s)
    /\ pc' = [pc EXCEPT ![s] = "done"]
    /\ meta' = [meta EXCEPT ![s] = [exists |-> TRUE, rows |-> @.rows]]
    /\ ev' = Event("merge_skip", s, NoSub, "")
    /\ UNCHANGED <<ctx, run, feed, idx, existing_ids, stats, new_images, todo,
                   df_existing, blobs, dirs, xcom, log, faults, merge_error,
                   meta0>>

\* if not new_images: return
MergeSkip(s) ==
    /\ pc[s] = "collected" /\ Len(new_images[s]) = 0 /\ Free(s)
    /\ pc' = [pc EXCEPT ![s] = "done"]
    /\ ev' = Event("merge_skip", s, NoSub, "")
    /\ UNCHANGED <<ctx, run, feed, idx, existing_ids, stats, new_images, todo,
                   df_existing, meta, blobs, dirs, xcom, log, faults, merge_error,
                   meta0>>

\* orch: blob.exists(), download_as_string, pd.read_csv for the next target
MergeRead(s) ==
    /\ ctx = "orch" /\ AtTarget(s)
    /\ LET target == Head(CurTodo(s)) IN
       /\ df_existing' = [df_existing EXCEPT ![s] =
              IF meta[target].exists
              THEN [found |-> TRUE, df |-> ReadCsv(meta[target].rows)]
              ELSE NoFrame]
       /\ ev' = Event("merge_read", s, NoSub, target)
    /\ todo' = [todo EXCEPT ![s] = CurTodo(s)]
    /\ pc' = [pc EXCEPT ![s] = "merge_write"]
    /\ UNCHANGED <<ctx, run, feed, idx, existing_ids, stats, new_images, meta, blobs,
                   dirs, xcom, log, faults, merge_error, meta0>>

\* orch: blob.upload_from_string(df_combined.to_csv(index=False))
MergeWrite(s) ==
    /\ ctx = "orch" /\ pc[s] = "merge_write" /\ Free(s)
    /\ LET target == Head(todo[s])
           images == ImagesFor(new_images[s], target) IN
       /\ meta' = [meta EXCEPT ![target] =
              [exists |-> TRUE, rows |-> ToCsv(Combined(df_existing[s], images))]]
       /\ ev' = Event("merge_write", s, NoSub, target)
    /\ todo' = [todo EXCEPT ![s] = Tail(@)]
    /\ df_existing' = [df_existing EXCEPT ![s] = NoFrame]
    /\ pc' = [pc EXCEPT ![s] = AfterTarget(s)]
    /\ UNCHANGED <<ctx, run, feed, idx, existing_ids, stats, new_images, blobs, dirs,
                   xcom, log, faults, merge_error, meta0>>

\* local: open(csv_path, 'a'), the header if the file is new, one row per image
MergeAppend(s) ==
    /\ ctx = "local" /\ AtTarget(s)
    /\ LET target == Head(CurTodo(s))
           images == ImagesFor(new_images[s], target) IN
       /\ meta' = [meta EXCEPT ![target] =
              [exists |-> TRUE, rows |-> @.rows \o CsvRows(images)]]
       /\ ev' = Event("merge_append", s, NoSub, target)
    /\ todo' = [todo EXCEPT ![s] = Tail(CurTodo(s))]
    /\ pc' = [pc EXCEPT ![s] = AfterTarget(s)]
    /\ UNCHANGED <<ctx, run, feed, idx, existing_ids, stats, new_images, df_existing,
                   blobs, dirs, xcom, log, faults, merge_error, meta0>>

\* reading or writing a target's metadata.csv raises: the except clause that
\* encloses the loop over the targets log the error and the function returns
MergeRaises(s) ==
    /\ faults < MaxFaults
    /\ \/ AtTarget(s)
       \/ ctx = "orch" /\ pc[s] = "merge_write" /\ Free(s)
    /\ faults' = faults + 1
    /\ merge_error' = merge_error \cup {<<s, Head(CurTodo(s))>>}
    /\ ev' = Event("merge_raised", s, NoSub, Head(CurTodo(s)))
    /\ todo' = [todo EXCEPT ![s] = <<>>]
    /\ df_existing' = [df_existing EXCEPT ![s] = NoFrame]
    /\ pc' = [pc EXCEPT ![s] = "done"]
    /\ UNCHANGED <<ctx, run, feed, idx, existing_ids, stats, new_images, meta, blobs,
                   dirs, xcom, log, meta0>>

----------------------------------------------------------------------------
(* create_daily_log / the end of collect_all_subreddit_images_local *)

RECURSIVE SumOf(_, _)
SumOf(all, field) ==
    IF Len(all) = 0 THEN 0 ELSE all[1][field] + SumOf(Tail(all), field)

\* all_stats with an entry for every Source, pulled or not
AllStatsUnfiltered == [i \in 1..Len(SUBREDDITS) |-> xcom[SUBREDDITS[i]]]

\* all_stats: the stats of the Sources in the order of SUBREDDITS.  orch:
\* xcom_pull gives None for a Source that pushed nothing, and `if stats`
\* leaves it out; local: the loop appends the stats of every Source
AllStats ==
    SelectSeq([i \in 1..Len(SUBREDDITS) |-> xcom[SUBREDDITS[i]]],
              LAMBDA st : st # NoStats)

LogData(all) ==
    [written |-> TRUE,
     subreddit_stats |-> all,
     total_new_images |-> SumOf(all, "new_images"),
     total_errors |-> SumOf(all, "download_errors")]

\* the log written as soon as every pass has ended, whatever the merges do
CreateDailyLogAfterCollect ==
    /\ \A s \in Sources : PastLoop(s)
    /\ ~log.written
    /\ log' = LogData(AllStats)
    /\ ev' = Event("daily_log", "", NoSub, "")
    /\ UNCHANGED <<ctx, run, feed, pc, idx, existing_ids, stats, new_images, todo,
                   df_existing, meta, blobs, dirs, xcom, faults, merge_error, meta0>>

\* orch: runs after every update_metadata task; local: after the loop over
\* the Sources
CreateDailyLog ==
    /\ \A s \in Sources : pc[s] = "done"
    /\ ~log.written
    /\ log' = LogData(AllStats)
    /\ ev' = Event("daily_log", "", NoSub, "")
    /\ UNCHANGED <<ctx, run, feed, pc, idx, existing_ids, stats, new_images, todo,
                   df_existing, meta, blobs, dirs, xcom, faults, merge_error, meta0>>

\* the next scheduled DAG run / the next invocation of the script, against
\* the same feeds and the stores as the last run left them
NextRun ==
    /\ run < MaxRuns
    /\ log.written \/ \E s \in Sources : pc[s] = "crashed"
    /\ run' = run + 1
    /\ log' = NoLog
    /\ pc' = [s \in Sources |-> "ready"]
    /\ idx' = [s \in Sources |-> 1]
    /\ existing_ids' = [s \in Sources |-> {}]
    /\ stats' = [s \in Sources |-> NewStats(s)]
    /\ new_images' = [s \in Sources |-> <<>>]
    /\ todo' = [s \in Sources |-> <<>>]
    /\ df_existing' = [s \in Sources |-> NoFrame]
    /\ xcom' = [s \in Sources |-> NoStats]
    /\ merge_error' = {}
    /\ meta0' = meta
    /\ ev' = Event("next_run", "", NoSub, "")
    /\ UNCHANGED <<ctx, feed, meta, blobs, dirs, faults>>

\* The run is interrupted between two steps (the worker or the script is
\* killed): what the tasks held in memory is gone, the stores stay as they
\* are, and the next run starts from them.  A local merge interrupted in its
\* loop over the images has appended the rows it had written so far.
Interrupt ==
    /\ run < MaxRuns /\ faults < MaxFaults
    /\ ~log.written
    /\ \/ meta' = meta
       \/ \E s \in Sources :
             /\ ctx = "local" /\ AtTarget(s)
             /\ LET target == Head(CurTodo(s))
                    images == ImagesFor(new_images[s], target) IN
                \E k \in 0..(Len(images) - 1) :
                    meta' = [meta EXCEPT ![target] =
                        [exists |-> TRUE,
                         rows |-> @.rows \o CsvRows(SubSeq(images, 1, k))]]
    /\ faults' = faults + 1
    /\ run' = run + 1
    /\ log' = NoLog
    /\ pc' = [s \in Sources |-> "ready"]
    /\ idx' = [s \in Sources |-> 1]
    /\ existing_ids' = [s \in Sources |-> {}]
    /\ stats' = [s \in Sources |-> NewStats(s)]
    /\ new_images' = [s \in Sources |-> <<>>]
    /\ todo' = [s \in Sources |-> <<>>]
    /\ df_existing' = [s \in Sources |-> NoFrame]
    /\ xcom' = [s \in Sources |-> NoStats]
    /\ merge_error' = {}
    /\ meta0' = meta'
    /\ ev' = Event("interrupt", "", NoSub, "")
    /\ UNCHANGED <<ctx, feed, blobs, dirs>>

Next ==
    \/ \E s \in Sources : LoadIds(s)
    \/ \E s \in Sources : LoadIdsUnreadable(s)
    \/ \E s \in Sources : LoadIdsMissingFile(s)
    \/ \E s \in Sources : Skip(s)
    \/ \E s \in Sources : Download(s)
    \/ \E s \in Sources : FetchRaises(s)
    \/ \E s \in Sources : WriteRaises(s)
    \/ \E s \in Sources : EndPass(s)
    \/ \E s \in Sources : MergeSkip(s)
    \/ \E s \in Sources : MergeRead(s)
    \/ \E s \in Sources : MergeWrite(s)
    \/ \E s \in Sources : MergeAppend(s)
    \/ \E s \in Sources : MergeRaises(s)
    \/ CreateDailyLog
    \/ NextRun

Spec == Init /\ [][Next]_vars

\* the single-submission scenarios alone, and the multi-source scenarios alone
SpecItem == InitItem /\ [][Next]_vars
SpecRun == InitRun /\ [][Next]_vars

\* the end-to-end scenarios alone
SpecFunnel == InitFunnel /\ [][Next]_vars

\* the stats a pass of subr pushes when n of the submissions it went on to
\* fetch were collected and e of them failed
Pushed(subr, n, e) ==
    LET ids == <<IdD, IdC, IdM, IdA>>
        flair == CHOOSE f \in FLAIR_DICT(subr) : TRUE
        imgs == [i \in 1..n |->
                    ImageRecord(subr, Submission(ids[i], flair, GoodUrl, FALSE))] IN
    [subreddit |-> subr, checked |-> n + e, passed_flair |-> n + e,
     passed_image |-> n + e, passed_nsfw |-> n + e, new_images |-> n,
     download_errors |-> e, images |-> imgs]

\* create_daily_log as a function of what it pulls from XCom: for every Source
\* either nothing or the stats of a pass
InitFold ==
    /\ ctx = "orch"
    /\ run = 1
    /\ feed = [s \in Sources |-> <<>>]
    /\ pc = [s \in Sources |-> "done"]
    /\ idx = [s \in Sources |-> 1]
    /\ existing_ids = [s \in Sources |-> {}]
    /\ xcom \in [Sources -> {NoStats} \cup
                    UNION {{Pushed(s, n, e) : n \in 0..MaxFeed, e \in 0..MaxFaults}
                             : s \in Sources}]
    /\ \A s \in Sources : xcom[s] # NoStats => xcom[s].subreddit = s
    /\ stats = [s \in Sources |-> IF xcom[s] = NoStats THEN NewStats(s) ELSE xcom[s]]
    /\ new_images = [s \in Sources |-> stats[s].images]
    /\ todo = [s \in Sources |-> <<>>]
    /\ df_existing = [s \in Sources |-> NoFrame]
    /\ meta = [c \in Sources |-> NoFile]
    /\ blobs = {}
    /\ dirs = {}
    /\ log = NoLog
    /\ faults = 0
    /\ merge_error = {}
    /\ meta0 = meta
    /\ ev = Event("init", "", NoSub, "")

\* the end-to-end scenarios with runs that may be interrupted
NextCrash == Next \/ Interrupt

SpecCrash == InitFunnel /\ [][NextCrash]_vars

NextFold == CreateDailyLog

SpecFold == InitFold /\ [][NextFold]_vars

----------------------------------------------------------------------------
(* Properties *)

RowSet(file) == {file.rows[i] : i \in 1..Len(file.rows)}
Others(s) == Sources \ {s}

\* the tag is absent or outside the Source's relevant-tag set
TagRejected(s, sub) ==
    Falsy(sub.link_flair_text) \/ sub.link_flair_text \notin FLAIR_DICT(s)

\* the events of an iteration that went on to the retrieval
FetchKinds == {"downloaded", "key_error", "fetch_raised", "write_raised"}

\* the path of the URL ends, case-insensitively, in a supported extension
PathHasImageExt(url) == Lower(SplitExt(UrlPath(url))) \in image_extensions

\* the rows of a Source's new records filed under a Category
NewRows(s, c) == CsvRows(ImagesFor(new_images[s], c))

\* C1: a second run of a Source's pipeline against the unchanged feed, after
\* a first run that completed without any failure, collects nothing: it
\* reports new_images = 0 and attempts no download.
C1_SecondRunCollectsNothing ==
    \A s \in Sources :
        (run = 2 /\ faults = 0 /\ PastLoop(s))
            => (stats[s].new_images = 0 /\ stats[s].download_errors = 0)

\* C2: once a run is complete, no Category's metadata store holds two rows
\* with the same submission_id.
C2_UniqueSubmissionIds ==
    log.written =>
        \A c \in Sources : \A i, j \in 1..Len(meta[c].rows) :
            i # j => meta[c].rows[i].submission_id # meta[c].rows[j].submission_id

\* C3: when every update_metadata task of an orchestrated run has completed
\* and none raised, each Category's store holds every row it held when the
\* run started and every row a Source collected for it in the run.
C3_NoLossInRun ==
    (ctx = "orch" /\ merge_error = {} /\ \A s \in Sources : pc[s] = "done")
        => \A c \in Sources :
              /\ RowSet(meta0[c]) \subseteq RowSet(meta[c])
              /\ \A s \in Sources : RowSet([rows |-> NewRows(s, c)]) \subseteq RowSet(meta[c])

\* C4: a merge of a non-empty list of new records that does not raise and that
\* no other writer interferes with leaves the rows the store held before it
\* unmodified and in order, followed by the new rows in the order they were
\* collected.
C4_MergeAppendsOnly ==
    \A s \in Sources : \A c \in Sources :
        ( /\ pc[s] = "done"
          /\ \A d \in Sources : <<s, d>> \notin merge_error
          /\ Len(NewRows(s, c)) > 0
          /\ \A t \in Others(s) : feed[t] = <<>> )
            => meta[c].rows = meta0[c].rows \o NewRows(s, c)

\* C5: a submission whose tag is absent or outside the Source's relevant-tag
\* set is never fetched, never written as a binary, never added to the
\* collected list, and increments neither passed_flair nor a later counter.
C5_TagFilterSound ==
    \A s \in Sources :
        LET relevant == {i \in 1..Len(feed[s]) :
                            i < idx[s] /\ ~TagRejected(s, feed[s][i])}
            n == Cardinality(relevant) IN
        /\ stats[s].passed_flair <= n
        /\ stats[s].passed_image <= n
        /\ stats[s].passed_nsfw <= n
        /\ stats[s].new_images + stats[s].download_errors <= n
        /\ \A i \in 1..Len(feed[s]) :
              TagRejected(s, feed[s][i]) =>
                  /\ \A k \in 1..Len(new_images[s]) :
                        new_images[s][k].submission_id # feed[s][i].id
                  /\ \A b \in blobs : b.filename[4] # feed[s][i].id
        /\ (ev.subr = s /\ ev.kind \in FetchKinds) => ~TagRejected(s, ev.sub)

\* C5 witness: the local pass examined a submission with no flair whose URL
\* and flag would pass, and rejected it at stage 1.
C5_Witness ==
    /\ ctx = "local" /\ ev.kind = "skip"
    /\ ev.sub.link_flair_text = NoneFlair
    /\ ImagePasses(ev.sub) /\ NsfwPasses(ev.sub)
    /\ stats[ev.subr].checked = 1 /\ stats[ev.subr].passed_flair = 0

\* C6: a submission with a relevant tag passes the content-type stage exactly
\* when the path of its URL ends, case-insensitively, in .jpg, .jpeg or .png.
C6_ContentTypeByPath ==
    \A s \in Sources :
        ( /\ idx[s] = 2 /\ ev.subr = s
          /\ ev.kind \in FetchKinds \cup {"skip"}
          /\ ~TagRejected(s, ev.sub) )
            => (stats[s].passed_image = 1 <=> PathHasImageExt(ev.sub.url))

\* C7: when the retrieval or the write of the binary raises, download_errors
\* grows by one, new_images and the collected list are unchanged, no binary
\* is written, and the pass moves on to the next submission.
C7_FetchFailureIsolated ==
    [][ \A s \in Sources :
          (FetchRaises(s) \/ WriteRaises(s)) =>
              /\ stats'[s].download_errors = stats[s].download_errors + 1
              /\ stats'[s].new_images = stats[s].new_images
              /\ new_images' = new_images
              /\ blobs' = blobs
              /\ idx'[s] = idx[s] + 1 /\ pc'[s] = "loop" ]_vars

\* C8: a retrieval that completes with a response that is not 2xx is counted
\* in download_errors, and neither a binary nor a record is produced for it.
C8_Non2xxIsFailure ==
    \A s \in Sources :
        (ev.subr = s /\ ev.kind \in {"downloaded", "key_error"} /\ ev.info # "200")
            => /\ stats[s].download_errors >= 1
               /\ \A k \in 1..Len(new_images[s]) :
                     new_images[s][k].submission_id # ev.sub.id
               /\ \A b \in blobs : b.body # "error_page"

\* C9: when the pass of the redirecting Source is the only one with new
\* records, every Category whose merge did not raise has received its
\* records once the update has ended, whatever happened to another Category.
C9_MergeFailureIsPerCategory ==
    ( /\ pc[AIART_SUBR] = "done"
      /\ \A t \in Others(AIART_SUBR) : feed[t] = <<>> )
        => \A c \in Sources :
              <<AIART_SUBR, c>> \notin merge_error
                  => RowSet([rows |-> NewRows(AIART_SUBR, c)]) \subseteq RowSet(meta[c])

\* C10: loading the Dedup Index never raises, in either context and whatever
\* the state of the store: no pass ends at the load.
C10_LoadNeverRaises == \A s \in Sources : pc[s] # "crashed"

\* the events of the steps of a metadata merge
MergeKinds == {"merge_skip", "merge_read", "merge_write", "merge_append",
               "merge_raised"}

\* C11: a step of a Source's metadata merge is taken only when the Source's
\* pass has examined its whole feed and handed over its results, and the daily
\* log is written only when the merge of every one of the three Sources has
\* ended.
C11_BarrierOrdering ==
    /\ \A s \in Sources :
          (ev.subr = s /\ ev.kind \in MergeKinds)
              => /\ idx[s] > Len(feed[s])
                 /\ xcom[s] = stats[s]
                 /\ stats[s].images = new_images[s]
    /\ (ev.kind = "daily_log" \/ log.written)
          => \A s \in Sources : pc[s] = "done" /\ todo[s] = <<>>

\* C11 witness: the log of an orchestrated run is written after one Source
\* merged new records into its store and the merges of the other two, which
\* had nothing new, ended too.
C11_Witness ==
    /\ ctx = "orch" /\ log.written /\ ev.kind = "daily_log"
    /\ \E s \in Sources :
          /\ Len(new_images[s]) > 0
          /\ \A c \in Sources : RowSet([rows |-> NewRows(s, c)]) \subseteq RowSet(meta[c])
    /\ \A s \in Sources : pc[s] = "done"

\* the positions of a Source's feed examined so far whose submission
\* satisfies P
Examinees(s, P(_)) == {i \in 1..(idx[s] - 1) : P(feed[s][i])}

TagOk(s, sub) == ~TagRejected(s, sub)
TagImageOk(s, sub) == TagOk(s, sub) /\ ImagePasses(sub)
TagImageSafeOk(s, sub) == TagImageOk(s, sub) /\ ~sub.over_18

\* the end-to-end scenario of a non-redirecting Source: the five submissions,
\* the third of them in the store already and the fifth one fetchable, in the
\* first run and without any failure
FunnelScenario(s) ==
    /\ s # AIART_SUBR /\ Len(feed[s]) = 5
    /\ meta0[s].exists /\ ImagePasses(feed[s][5])
    /\ run = 1 /\ faults = 0

\* C12: throughout a pass checked is the number of submissions examined,
\* passed_flair the number of them with a relevant tag, passed_image the
\* number of those that also passed the test of the URL, passed_nsfw the
\* number of those that also are not over_18 (the stages counted in the order
\* tag, URL, over_18, each only for what passed the stage before); at the end
\* of the pass checked is the length of the feed; and the end-to-end scenario
\* ends with the counters 5, 3, 3, 2, 1, 0 and one row appended.
C12_FunnelCountersExact ==
    \A s \in Sources :
        /\ stats[s].checked = idx[s] - 1
        /\ stats[s].passed_flair =
               Cardinality(Examinees(s, LAMBDA sub : TagOk(s, sub)))
        /\ stats[s].passed_image =
               Cardinality(Examinees(s, LAMBDA sub : TagImageOk(s, sub)))
        /\ stats[s].passed_nsfw =
               Cardinality(Examinees(s, LAMBDA sub : TagImageSafeOk(s, sub)))
        /\ PastLoop(s) => stats[s].checked = Len(feed[s])
        /\ (FunnelScenario(s) /\ pc[s] = "done")
              => /\ stats[s].checked = 5 /\ stats[s].passed_flair = 3
                 /\ stats[s].passed_image = 3 /\ stats[s].passed_nsfw = 2
                 /\ stats[s].new_images = 1 /\ stats[s].download_errors = 0
                 /\ meta[s].rows = meta0[s].rows \o NewRows(s, s)
                 /\ Len(NewRows(s, s)) = 1
                 /\ \A c \in Others(s) : meta[c] = meta0[c]

\* C12 witness: the orchestrated pipeline of dalle2 has run the end-to-end
\* scenario to the end of its merge.
C12_Witness ==
    /\ ctx = "orch" /\ FunnelScenario(DALLE_SUBR) /\ pc[DALLE_SUBR] = "done"
    /\ stats[DALLE_SUBR].checked = 5 /\ stats[DALLE_SUBR].new_images = 1
    /\ Len(meta[DALLE_SUBR].rows) = 2

\* the Sources whose stats were handed over
Present == {s \in Sources : xcom[s] # NoStats}

\* what a Source contributes to a total
Contribution(s, field) == IF s \in Present THEN xcom[s][field] ELSE 0

\* the position of a Source in the fixed order dalle2, midjourney, aiArt
Rank(s) == CHOOSE i \in 1..Len(SUBREDDITS) : SUBREDDITS[i] = s

\* C13: the written log lists the stats of exactly the Sources that handed
\* stats over, each as it was handed over, in the order dalle2, midjourney,
\* aiArt; total_new_images and total_errors are the sums of new_images and of
\* download_errors over them, a Source that handed over nothing counting 0.
C13_AggregatorIsFold ==
    log.written =>
        LET all == log.subreddit_stats IN
        /\ Len(all) = Cardinality(Present)
        /\ \A i \in 1..Len(all) :
              all[i].subreddit \in Present /\ all[i] = xcom[all[i].subreddit]
        /\ \A i, j \in 1..Len(all) :
              i < j => Rank(all[i].subreddit) < Rank(all[j].subreddit)
        /\ log.total_new_images =
              Contribution(DALLE_SUBR, "new_images")
              + Contribution(MIDJ_SUBR, "new_images")
              + Contribution(AIART_SUBR, "new_images")
        /\ log.total_errors =
              Contribution(DALLE_SUBR, "download_errors")
              + Contribution(MIDJ_SUBR, "download_errors")
              + Contribution(AIART_SUBR, "download_errors")

\* C13 witness: a log written from the stats of dalle2 and aiArt alone, with
\* new images and errors to add up.
C13_Witness ==
    /\ log.written /\ Present = {DALLE_SUBR, AIART_SUBR}
    /\ Len(log.subreddit_stats) = 2
    /\ xcom[DALLE_SUBR].new_images > 0 /\ xcom[AIART_SUBR].new_images > 0
    /\ log.total_errors > 0

\* the Category a submission of a Source is to be filed under
CategoryOf(s, flair) ==
    IF s # AIART_SUBR THEN s
    ELSE IF flair = "Image - DALL E 3 :a2:" THEN DALLE_SUBR
    ELSE IF flair = "Image - Midjourney :a2:" THEN MIDJ_SUBR
    ELSE "none"

\* the submission of a Source's feed with the given id
SubmissionOf(s, id) == feed[s][CHOOSE i \in 1..Len(feed[s]) : feed[s][i].id = id]

\* C14: every record a pass collected names the Category of its submission
\* (dalle2 or midjourney by the tag for aiArt, the Source itself otherwise) as
\* its target and in its filename, its binary is stored under that Category,
\* its subreddit field is the Source, every row of a store names in its
\* subreddit field the Source of its submission and lies in the store of the
\* submission's Category, and no resolution fails.
C14_CategoryResolution ==
    /\ ev.kind # "key_error"
    /\ \A s \in Sources : \A k \in 1..Len(new_images[s]) :
          LET rec == new_images[s][k]
              cat == CategoryOf(s, SubmissionOf(s, rec.submission_id).link_flair_text) IN
          /\ cat \in {DALLE_SUBR, MIDJ_SUBR} \cup {s}
          /\ rec.target_subr = cat
          /\ rec.filename[2] = cat
          /\ rec.subreddit = s
          /\ \E b \in blobs : b.target = cat /\ b.filename = rec.filename
    /\ \A c \in Sources : \A i \in 1..Len(meta[c].rows) :
          LET row == meta[c].rows[i]
              s == row.subreddit
              id == row.filename[4] IN
          /\ s \in Sources
          /\ \E k \in 1..Len(feed[s]) : feed[s][k].id = id
          /\ c = CategoryOf(s, SubmissionOf(s, id).link_flair_text)
          /\ row.filename[2] = c
    /\ ~meta[AIART_SUBR].exists

\* C14 witness: a submission of aiArt tagged "Image - DALL E 3 :a2:" has its
\* row in the store of dalle2, with aiArt in the subreddit field.
C14_Witness ==
    /\ pc[AIART_SUBR] = "done" /\ Len(feed[AIART_SUBR]) = 5
    /\ feed[AIART_SUBR][5].link_flair_text = "Image - DALL E 3 :a2:"
    /\ \E i \in 1..Len(meta[DALLE_SUBR].rows) :
          /\ meta[DALLE_SUBR].rows[i].submission_id = feed[AIART_SUBR][5].id
          /\ meta[DALLE_SUBR].rows[i].subreddit = AIART_SUBR
          /\ meta[DALLE_SUBR].rows[i].filename[2] = DALLE_SUBR

\* the extension each content URL is to give: that of its path, in lower
\* case, and .jpg for a path without one
ExpectedExt(url) ==
    CASE url = <<Host, "/a", ".jpg">>               -> ".jpg"
      [] url = <<Host, "/a", ".jpeg">>              -> ".jpeg"
      [] url = <<Host, "/a", ".png">>               -> ".png"
      [] url = <<Host, "/a", ".PNG">>               -> ".png"
      [] url = <<Host, "/a", ".jpg", "?", "w=1">>   -> ".jpg"
      [] url = <<Host, "/view", "?", "f=x", ".jpg">> -> ".jpg"
      [] url = <<Host, "/a", ".gif">>               -> ".gif"
      [] url = <<Host, "/gallery/a">>               -> ".jpg"
      [] url = <<Host, "/a", ".png", "#", "top">>   -> ".png"

\* C15: get_file_extension gives every content URL the extension of its path
\* in lower case, or .jpg when the path has none; the filename of every
\* collected record is img_{category}_{id}{extension}, and its binary is
\* stored under {category} with that filename.
C15_FilenameDerivation ==
    /\ \A u \in Urls : get_file_extension(u) = ExpectedExt(u)
    /\ \A s \in Sources : \A k \in 1..Len(new_images[s]) :
          LET rec == new_images[s][k] IN
          /\ rec.filename = <<"img_", rec.target_subr, "_", rec.submission_id,
                               ExpectedExt(rec.url)>>
          /\ \E b \in blobs : b.target = rec.target_subr /\ b.filename = rec.filename
    /\ \A b \in blobs : b.filename[1] = "img_" /\ b.filename[2] = b.target
    /\ \A s \in Sources :
          (ev.subr = s /\ ev.kind = "downloaded")
              => \E b \in blobs :
                    /\ b.target = CategoryOf(s, ev.sub.link_flair_text)
                    /\ b.filename = <<"img_", b.target, "_", ev.sub.id,
                                       ExpectedExt(ev.sub.url)>>

\* C15 witness: the local pass stored the binary of a submission whose URL
\* has no extension in its path and ".jpg" at the end of its query.
C15_Witness ==
    /\ ctx = "local" /\ ev.kind = "downloaded"
    /\ ev.sub.url = <<Host, "/view", "?", "f=x", ".jpg">>
    /\ \E b \in blobs : b.filename = <<"img_", ev.subr, "_", ev.sub.id, ".jpg">>

\* the content type an extension is to give
ExpectedContentType(ext) ==
    IF ext \in {".jpg", ".jpeg"} THEN "image/jpeg"
    ELSE IF ext = ".png" THEN "image/png"
    ELSE "image/jpeg"

\* C16: every extension get_file_extension can derive, .gif included, has a
\* content type: image/jpeg for .jpg and .jpeg, image/png for .png, image/jpeg
\* for any other; and every binary the orchestrated pass uploaded carries the
\* content type of the extension in its name.
C16_ContentTypeTotal ==
    /\ \A u \in Urls :
          CONTENT_TYPE_MAP(get_file_extension(u)) =
              ExpectedContentType(ExpectedExt(u))
    /\ \A t \in ExtTokens \cup {".webp", ""} :
          CONTENT_TYPE_MAP(t) \in {"image/jpeg", "image/png"}
    /\ ctx = "orch" =>
          \A b \in blobs :
              /\ b.content_type = ExpectedContentType(b.filename[5])
              /\ b.content_type \in {"image/jpeg", "image/png"}

\* C16 witness: the orchestrated pass uploaded a .png as image/png.
C16_Witness ==
    /\ ctx = "orch" /\ ev.kind = "downloaded"
    /\ \E b \in blobs :
          /\ b.filename[4] = ev.sub.id /\ b.filename[5] = ".png"
          /\ b.content_type = "image/png"

\* C17: the merge step of a Source whose pass collected nothing reads no
\* store and leaves every store, binary and directory as it was; and no step
\* of a merge changes the store of a Category the pass collected nothing for.
C17_EmptyMergeNoOp ==
    [][ \A s \in Sources :
          (ev'.subr = s /\ ev'.kind \in MergeKinds) =>
              /\ new_images[s] = <<>> =>
                    /\ ev'.kind = "merge_skip" /\ pc'[s] = "done"
                    /\ meta' = meta /\ df_existing' = df_existing
                    /\ blobs' = blobs /\ dirs' = dirs
              /\ \A c \in Sources :
                    ImagesFor(new_images[s], c) = <<>> => meta'[c] = meta[c] ]_vars

\* C17 witness: in a second run the pass of dalle2 examined its five
\* submissions, collected nothing, and its merge ended with the store it found.
C17_Witness ==
    /\ ev.kind = "merge_skip" /\ ev.subr = DALLE_SUBR /\ run = 2
    /\ stats[DALLE_SUBR].checked = 5 /\ new_images[DALLE_SUBR] = <<>>
    /\ Len(meta[DALLE_SUBR].rows) = 2 /\ meta = meta0

\* what the local run loads as existing_ids of a Source from the stores the
\* run started with
LocalIds(s) ==
    IF meta0[s].exists THEN SubmissionIds(ReadCsv(meta0[s].rows)) ELSE {}

\* the positions of a Source's feed the local pass goes on to fetch
LocalFetched(s) ==
    {i \in 1..Len(feed[s]) : StagesPassed("local", s, feed[s][i], LocalIds(s)) = 4}

\* C18: a complete run without any failure in which one Source has a feed
\* (so that the order of the steps of the other Sources is immaterial) ends,
\* in the orchestrated context as in the local one, with what the local run
\* produces from the same stores and feed: the counters of the local filter,
\* each store holding its old rows followed by the rows of the new records,
\* a binary for every new record, and the totals of the local summary.
C18_SameAsLocalRun ==
    \A s \in Sources :
        ( /\ log.written /\ faults = 0
          /\ \A t \in Others(s) : feed[t] = <<>> )
            => /\ stats[s].checked = Len(feed[s])
               /\ stats[s].new_images = Cardinality(LocalFetched(s))
               /\ stats[s].download_errors = 0
               /\ \A c \in Sources : meta[c].rows = meta0[c].rows \o NewRows(s, c)
               /\ \A k \in 1..Len(new_images[s]) :
                     \E b \in blobs : /\ b.target = new_images[s][k].target_subr
                                       /\ b.filename = new_images[s][k].filename
               /\ log.total_new_images = Cardinality(LocalFetched(s))
               /\ log.total_errors = 0

\* the positions examined so far whose submission passed the first three
\* stages and was found in existing_ids
KnownRejected(s) ==
    {i \in 1..(idx[s] - 1) :
        StagesPassed(ctx, s, feed[s][i], existing_ids[s]) = 3}

\* C19: throughout a pass checked >= passed_flair >= passed_image >=
\* passed_nsfw >= new_images + download_errors, new_images is the length of
\* the list of collected records, and passed_nsfw - (new_images +
\* download_errors) is the number of submissions examined so far that were
\* rejected for being in existing_ids; so it is at the end of the pass, when
\* stats['images'] is that list.
C19_FunnelMonotone ==
    \A s \in Sources :
        /\ stats[s].checked >= stats[s].passed_flair
        /\ stats[s].passed_flair >= stats[s].passed_image
        /\ stats[s].passed_image >= stats[s].passed_nsfw
        /\ stats[s].passed_nsfw >= stats[s].new_images + stats[s].download_errors
        /\ stats[s].new_images = Len(new_images[s])
        /\ pc[s] \in {"loop", "collected", "merge", "merge_write", "done"} =>
              stats[s].passed_nsfw - (stats[s].new_images + stats[s].download_errors)
                  = Cardinality(KnownRejected(s))
        /\ PastLoop(s) => stats[s].images = new_images[s] /\ idx[s] = Len(feed[s]) + 1

\* C19 witness: a pass ended with two submissions past the over_18 stage, one
\* of them rejected as already collected and the other failed in the fetch.
C19_Witness ==
    \E s \in Sources :
        /\ pc[s] = "collected" /\ Len(feed[s]) = 5
        /\ stats[s].passed_nsfw = 2 /\ stats[s].new_images = 0
        /\ stats[s].download_errors = 1 /\ Cardinality(KnownRejected(s)) = 1

\* the binary stored under a Category with the given filename
HasBinary(c, filename) == \E b \in blobs : b.target = c /\ b.filename = filename

\* C20: in every state, interrupted runs included, every row of a Category's
\* metadata store names a file that is stored under that Category: the binary
\* is there from before the row is written, and no row is without one.
C20_BinaryBeforeRow ==
    /\ \A c \in Sources : \A i \in 1..Len(meta[c].rows) :
          HasBinary(c, meta[c].rows[i].filename)
    /\ \A s \in Sources : \A k \in 1..Len(new_images[s]) :
          HasBinary(new_images[s][k].target_subr, new_images[s][k].filename)

\* C20 witness: a run was interrupted after its pass stored a binary and
\* before the merge: the binary has no row, and the row the store holds has
\* its binary.
C20_Witness ==
    /\ ev.kind = "interrupt"
    /\ \E b \in blobs :
          \A i \in 1..Len(meta[b.target].rows) :
              meta[b.target].rows[i].filename # b.filename
    /\ \E c \in Sources :
          /\ Len(meta[c].rows) > 0
          /\ HasBinary(c, meta[c].rows[1].filename)

\* C21: in every state of every run, every record the pass of aiArt collected
\* has dalle2 or midjourney as its target, no binary, no metadata.csv and no
\* directory exists under aiArt, the load of aiArt's identifiers never fails,
\* and the existing_ids of the aiArt pass is the empty set.
C21_RedirectingSourceHasNoStore ==
    /\ \A k \in 1..Len(new_images[AIART_SUBR]) :
          new_images[AIART_SUBR][k].target_subr \in {DALLE_SUBR, MIDJ_SUBR}
    /\ \A s \in Sources : \A k \in 1..Len(new_images[s]) :
          new_images[s][k].target_subr # AIART_SUBR
    /\ \A b \in blobs : b.target # AIART_SUBR
    /\ meta[AIART_SUBR] = NoFile
    /\ AIART_SUBR \notin dirs
    /\ pc[AIART_SUBR] # "crashed"
    /\ existing_ids[AIART_SUBR] = {}

\* C21 witness: in a later run the pass of aiArt has loaded its identifiers
\* and examined its feed while the store of dalle2 or midjourney holds a row
\* that an earlier pass of aiArt collected.
C21_Witness ==
    /\ run = 2 /\ PastLoop(AIART_SUBR) /\ Len(feed[AIART_SUBR]) = 5
    /\ existing_ids[AIART_SUBR] = {}
    /\ \E c \in {DALLE_SUBR, MIDJ_SUBR} : \E i \in 1..Len(meta0[c].rows) :
          meta0[c].rows[i].subreddit = AIART_SUBR

=============================================================================
